---- MODULE Spec2Model ----
(***************************************************************************)
(* Model of app.py: the normalization of the decoded model reply in        *)
(* call_gemini_sms_image and the phrase highlighter highlight_phrases.     *)
(*                                                                         *)
(* Text is a sequence of one-character strings.  A decoded JSON value is a *)
(* record [t, n, s]: t its Python type, n its number, s its text.  Floats  *)
(* are fixed point, in units of 1/One.                                     *)
(***************************************************************************)
EXTENDS Integers, Sequences, FiniteSets, TLC

VARIABLES callFailed, error, data, result, hlDone, hlText, hlPhrases, hlOrder, hlOut

vars == <<callFailed, error, data, result, hlDone, hlText, hlPhrases, hlOrder, hlOut>>

(***************************************************************************)
(* Bounds of the model.                                                    *)
(***************************************************************************)
MaxReasons == 7
MaxUrls == 2
MaxPhrases == 2

(***************************************************************************)
(* Program constants.  One is the float 1.0 of the clamp, in fixed point.  *)
(***************************************************************************)
One == 100
ReasonsCap == 6

(***************************************************************************)
(* Characters and the str methods the code uses.                           *)
(***************************************************************************)
LowerMap ==
  [A |-> "a", B |-> "b", C |-> "c", D |-> "d", E |-> "e", F |-> "f", G |-> "g",
   H |-> "h", I |-> "i", J |-> "j", K |-> "k", L |-> "l", M |-> "m", N |-> "n",
   O |-> "o", P |-> "p", Q |-> "q", R |-> "r", S |-> "s", T |-> "t", U |-> "u",
   V |-> "v", W |-> "w", X |-> "x", Y |-> "y", Z |-> "z"]

UpperChars == DOMAIN LowerMap
LowerChars == {LowerMap[c] : c \in UpperChars}
DigitChars == {"0", "1", "2", "3", "4", "5", "6", "7", "8", "9"}
Whitespace == {" ", "\t", "\n"}

LowerChar(c) == IF c \in UpperChars THEN LowerMap[c] ELSE c

\* str.lower()
Lower(s) == [i \in 1..Len(s) |-> LowerChar(s[i])]

RECURSIVE LStrip(_)
LStrip(s) == IF s # <<>> /\ Head(s) \in Whitespace THEN LStrip(Tail(s)) ELSE s

RECURSIVE RStrip(_)
RStrip(s) ==
  IF s # <<>> /\ s[Len(s)] \in Whitespace THEN RStrip(SubSeq(s, 1, Len(s) - 1)) ELSE s

\* str.strip()
Strip(s) == RStrip(LStrip(s))

DigitOf == [i \in 0..9 |-> CASE i = 0 -> "0" [] i = 1 -> "1" [] i = 2 -> "2" [] i = 3 -> "3"
                             [] i = 4 -> "4" [] i = 5 -> "5" [] i = 6 -> "6" [] i = 7 -> "7"
                             [] i = 8 -> "8" [] i = 9 -> "9"]

DigitValue(c) == CHOOSE i \in 0..9 : DigitOf[i] = c

RECURSIVE NatStr(_)
NatStr(k) == IF k < 10 THEN <<DigitOf[k]>> ELSE NatStr(k \div 10) \o <<DigitOf[k % 10]>>

Abs(k) == IF k < 0 THEN -k ELSE k

IntStr(k) == IF k < 0 THEN <<"-">> \o NatStr(-k) ELSE NatStr(k)

\* repr of a float held in units of 1/One: at least one digit after the point,
\* no trailing zero after it
FloatStr(k) ==
  LET whole == Abs(k) \div One
      frac == Abs(k) % One
      fracStr == IF frac % 10 = 0 THEN <<DigitOf[frac \div 10]>>
                 ELSE <<DigitOf[frac \div 10], DigitOf[frac % 10]>>
  IN (IF k < 0 THEN <<"-">> ELSE <<>>) \o NatStr(whole) \o <<".">> \o fracStr

(***************************************************************************)
(* Decoded JSON values (the results of json.loads).                        *)
(***************************************************************************)
Missing == [t |-> "missing", n |-> 0, s |-> <<>>]
JNull == [t |-> "null", n |-> 0, s |-> <<>>]
JBool(b) == [t |-> "bool", n |-> IF b THEN 1 ELSE 0, s |-> <<>>]
JInt(k) == [t |-> "int", n |-> k, s |-> <<>>]
JFloat(k) == [t |-> "float", n |-> k, s |-> <<>>]
JNaN == [t |-> "nan", n |-> 0, s |-> <<>>]
JInf(sign) == [t |-> "inf", n |-> sign, s |-> <<>>]
JStr(s) == [t |-> "str", n |-> 0, s |-> s]
\* the empty list and the empty mapping, where a scalar is expected
JEmptyList == [t |-> "list", n |-> 0, s |-> <<>>]
JEmptyMap == [t |-> "map", n |-> 0, s |-> <<>>]
\* a JSON integer of the given sign with `digits` decimal digits, held as text:
\* json.loads yields a Python int of any size
JBigInt(sign, digits) ==
  [t |-> "bigint", n |-> sign, s |-> [i \in 1..digits |-> IF i = 1 THEN "1" ELSE "0"]]

\* str(v)
Str(v) ==
  CASE v.t = "str" -> v.s
    [] v.t = "null" -> <<"N", "o", "n", "e">>
    [] v.t = "bool" -> IF v.n = 1 THEN <<"T", "r", "u", "e">> ELSE <<"F", "a", "l", "s", "e">>
    [] v.t = "int" -> IntStr(v.n)
    [] v.t = "bigint" -> (IF v.n < 0 THEN <<"-">> ELSE <<>>) \o v.s
    [] v.t = "float" -> FloatStr(v.n)
    [] v.t = "nan" -> <<"n", "a", "n">>
    [] v.t = "inf" -> IF v.n < 0 THEN <<"-", "i", "n", "f">> ELSE <<"i", "n", "f">>
    [] v.t = "list" -> <<"[", "]">>
    [] v.t = "map" -> <<"{", "}">>

\* dict.get(key, default) on a field that holds Missing when the key is absent
Get(field, default) == IF field.t = "missing" THEN default ELSE field

(***************************************************************************)
(* Python floats: k is "fin" (n in units of 1/One), "huge" (finite, beyond *)
(* the fixed-point range, n its sign), "inf" (n its sign), "nan", or       *)
(* "raise" when float() raised.                                            *)
(***************************************************************************)
Fin(k) == [k |-> "fin", n |-> k]
Huge(sign) == [k |-> "huge", n |-> sign]
Inf(sign) == [k |-> "inf", n |-> sign]
NaN == [k |-> "nan", n |-> 0]
Raise == [k |-> "raise", n |-> 0]

FloatClass(a) ==
  CASE a.k = "fin" -> 0
    [] a.k = "huge" -> a.n
    [] a.k = "inf" -> 2 * a.n

\* a < b on floats: every comparison with nan is false
FloatLt(a, b) ==
  /\ a.k # "nan"
  /\ b.k # "nan"
  /\ \/ FloatClass(a) < FloatClass(b)
     \/ a.k = "fin" /\ b.k = "fin" /\ a.n < b.n

RECURSIVE DigitsValue(_)
DigitsValue(ds) ==
  IF ds = <<>> THEN 0 ELSE 10 * DigitsValue(SubSeq(ds, 1, Len(ds) - 1)) + DigitValue(ds[Len(ds)])

IsDecimal(r) ==
  /\ \A i \in 1..Len(r) : r[i] \in DigitChars \cup {"."}
  /\ Cardinality({i \in 1..Len(r) : r[i] = "."}) <= 1
  /\ \E i \in 1..Len(r) : r[i] \in DigitChars

\* the value of digits[.digits], in units of 1/One (two fraction digits)
DecimalValue(r) ==
  LET dots == {i \in 1..Len(r) : r[i] = "."}
      d == IF dots = {} THEN Len(r) + 1 ELSE CHOOSE i \in dots : TRUE
      frac == SubSeq(r, d + 1, Len(r)) \o <<"0", "0">>
  IN DigitsValue(SubSeq(r, 1, d - 1)) * One + DigitsValue(SubSeq(frac, 1, 2))

\* float(s) for a str: surrounding whitespace is ignored, then an optional sign
\* and a decimal numeral, or inf / infinity / nan in any casing
ParseFloat(s) ==
  LET body == Strip(s)
      signed == body # <<>> /\ body[1] \in {"+", "-"}
      sign == IF signed /\ body[1] = "-" THEN -1 ELSE 1
      rest == IF signed THEN Tail(body) ELSE body
      word == Lower(rest)
  IN CASE word = <<"n", "a", "n">> -> NaN
       [] word \in {<<"i", "n", "f">>, <<"i", "n", "f", "i", "n", "i", "t", "y">>} -> Inf(sign)
       [] IsDecimal(rest) -> Fin(sign * DecimalValue(rest))
       [] OTHER -> Raise

\* float(v): TypeError for None and containers, ValueError for text that is no
\* numeral, OverflowError for an int above the largest double (about 1.8e308:
\* a power of ten overflows when it has more than 309 digits)
FloatOf(v) ==
  CASE v.t \in {"int", "bool"} -> Fin(v.n * One)
    [] v.t = "float" -> Fin(v.n)
    [] v.t = "nan" -> NaN
    [] v.t = "inf" -> Inf(v.n)
    [] v.t = "bigint" -> IF Len(v.s) > 309 THEN Raise ELSE Huge(v.n)
    [] v.t = "str" -> ParseFloat(v.s)
    [] OTHER -> Raise

\* min(1.0, c): c when c < 1.0, else 1.0
PyMin(a, b) == IF FloatLt(b, a) THEN b ELSE a

\* max(0.0, c): c when c > 0.0, else 0.0
PyMax(a, b) == IF FloatLt(a, b) THEN b ELSE a

(***************************************************************************)
(* Payloads.  A field of the payload is [t, n, s, l]: l the elements of a  *)
(* list.  An element is [t, n, s, url, status]: url and status the values  *)
(* of a mapping's keys.  The payload is [t, n, s] with the six fields.     *)
(***************************************************************************)
Field(v) == [t |-> v.t, n |-> v.n, s |-> v.s, l |-> <<>>]
FList(elems) == [t |-> "list", n |-> 0, s |-> <<>>, l |-> elems]
Elem(v) == [t |-> v.t, n |-> v.n, s |-> v.s, url |-> Missing, status |-> Missing]
Item(url, status) == [t |-> "map", n |-> 0, s |-> <<>>, url |-> url, status |-> status]
Scalar(v) == [t |-> v.t, n |-> v.n, s |-> v.s]

Mapping(verdict, confidence, reasons, risky_phrases, urls, user_message) ==
  [t |-> "map", n |-> 0, s |-> <<>>,
   verdict |-> verdict, confidence |-> confidence, reasons |-> reasons,
   risky_phrases |-> risky_phrases, urls |-> urls, user_message |-> user_message]

\* a payload that is not a mapping: it has no keys
NonMapping(v) ==
  [t |-> v.t, n |-> v.n, s |-> v.s,
   verdict |-> Field(Missing), confidence |-> Field(Missing), reasons |-> Field(Missing),
   risky_phrases |-> Field(Missing), urls |-> Field(Missing), user_message |-> Field(Missing)]

\* whether `for x in f` works, and what it yields: the elements of a list, the
\* characters of a str, the keys of the (empty) mapping
Iterable(f) == f.t \in {"list", "str", "map"}

Iter(f) ==
  CASE f.t = "list" -> f.l
    [] f.t = "str" -> [i \in 1..Len(f.s) |-> Elem(JStr(<<f.s[i]>>))]
    [] OTHER -> <<>>

(***************************************************************************)
(* call_gemini_sms_image, field by field.                                  *)
(***************************************************************************)
S_unknown == <<"u", "n", "k", "n", "o", "w", "n">>
S_safe == <<"s", "a", "f", "e">>
S_suspicious == <<"s", "u", "s", "p", "i", "c", "i", "o", "u", "s">>
S_phishing == <<"p", "h", "i", "s", "h", "i", "n", "g">>
Verdicts == {S_safe, S_suspicious, S_phishing}

S_NoExplanation ==
  <<"N", "o", " ", "e", "x", "p", "l", "a", "n", "a", "t", "i", "o", "n", " ",
    "p", "r", "o", "v", "i", "d", "e", "d", ".">>
S_AnalysisFailed ==
  <<"A", "u", "t", "o", "m", "a", "t", "i", "c", " ", "a", "n", "a", "l", "y", "s", "i", "s", " ",
    "f", "a", "i", "l", "e", "d", ".">>
S_GeminiError == <<"G", "e", "m", "i", "n", "i", " ", "e", "r", "r", "o", "r", ":", " ">>

\* a variant of the except branch's payload that leaves user_message out
ExceptPayloadNoMessage(e) ==
  Mapping(Field(JStr(S_unknown)), Field(JFloat(0)), FList(<<Elem(JStr(S_GeminiError \o e))>>),
          FList(<<>>), FList(<<>>), Field(Missing))

\* the payload built by the except branch from the exception's text
ExceptPayload(e) ==
  Mapping(Field(JStr(S_unknown)), Field(JFloat(0)), FList(<<Elem(JStr(S_GeminiError \o e))>>),
          FList(<<>>), FList(<<>>), Field(JStr(S_AnalysisFailed)))

\* a variant of the verdict step without lower()
NormVerdictNoLower(d) ==
  LET verdict == Str(Get(d.verdict, JStr(S_unknown)))
  IN IF verdict \notin Verdicts THEN S_unknown ELSE verdict

NormVerdict(d) ==
  LET verdict == Lower(Str(Get(d.verdict, JStr(S_unknown))))
  IN IF verdict \notin Verdicts THEN S_unknown ELSE verdict

FloatOrDefault(d) ==
  LET c == FloatOf(Get(d.confidence, JFloat(0)))
  IN IF c.k = "raise" THEN Fin(0) ELSE c

\* a variant of the clamp without the upper limit
NormConfidenceNoUpper(d) == PyMax(Fin(0), FloatOrDefault(d))

NormConfidence(d) == PyMax(Fin(0), PyMin(Fin(One), FloatOrDefault(d)))

ReasonsRaises(d) == ~Iterable(Get(d.reasons, FList(<<>>)))

NormReasons(d) ==
  LET rs == Iter(Get(d.reasons, FList(<<>>)))
      strs == [i \in 1..Len(rs) |-> Str(rs[i])]
  IN SubSeq(strs, 1, IF Len(strs) < ReasonsCap THEN Len(strs) ELSE ReasonsCap)

\* == on two decoded values: numbers compare by value, whatever their type
PyEq(a, b) ==
  IF a.t \in {"int", "bool", "float"} /\ b.t \in {"int", "bool", "float"}
  THEN FloatOf(a) = FloatOf(b)
  ELSE a.t = b.t /\ a.n = b.n /\ a.s = b.s

Hashable(e) == e.t \notin {"list", "map"}

RiskyRaises(d) ==
  LET f == Get(d.risky_phrases, FList(<<>>))
  IN ~Iterable(f) \/ \E i \in 1..Len(Iter(f)) : ~Hashable(Iter(f)[i])

\* the members of set(...), each once, here in the order of first occurrence
RECURSIVE Dedup(_, _)
Dedup(es, seen) ==
  IF es = <<>> THEN seen
  ELSE IF \E j \in 1..Len(seen) : PyEq(seen[j], Scalar(Head(es)))
       THEN Dedup(Tail(es), seen)
       ELSE Dedup(Tail(es), Append(seen, Scalar(Head(es))))

RiskySet(d) == Dedup(Iter(Get(d.risky_phrases, FList(<<>>))), <<>>)

\* the iteration orders a set of k members can have
Orders(k) == {f \in [1..k -> 1..k] : \A i, j \in 1..k : i # j => f[i] # f[j]}

\* list(set(...)) under one iteration order
NormRiskyPhrases(d, order) == [i \in 1..Len(RiskySet(d)) |-> RiskySet(d)[order[i]]]

UrlsRaises(d) ==
  LET f == Get(d.urls, FList(<<>>))
  IN ~Iterable(f) \/ \E i \in 1..Len(Iter(f)) : Iter(f)[i].t # "map"

\* a variant of the status step that defaults only an empty status
NormUrlStatusKeepUnknown(item) ==
  LET s == Lower(Str(Get(item.status, JStr(<<>>))))
  IN IF s = <<>> THEN S_suspicious ELSE s

NormUrlStatus(item) ==
  LET s == Lower(Str(Get(item.status, JStr(<<>>))))
  IN IF s \notin Verdicts THEN S_suspicious ELSE s

NormUrl(item) ==
  [url |-> Strip(Str(Get(item.url, JStr(<<>>)))), status |-> NormUrlStatus(item)]

NormUrls(d) ==
  LET items == Iter(Get(d.urls, FList(<<>>)))
  IN [i \in 1..Len(items) |-> NormUrl(items[i])]

UserMessageRaises(d) == Get(d.user_message, JStr(<<>>)).t # "str"

NormUserMessage(d) ==
  LET m == Strip(Get(d.user_message, JStr(<<>>)).s)
  IN IF m = <<>> THEN S_NoExplanation ELSE m

Raised(exc) ==
  [status |-> "raised", exc |-> exc, verdict |-> <<>>, confidence |-> Fin(0), reasons |-> <<>>,
   risky_phrases |-> <<>>, urls |-> <<>>, user_message |-> <<>>]

\* lines 96-126: the statements run in order, and the first that raises ends the call
Normalize(d, order) ==
  CASE d.t # "map" -> Raised("AttributeError")
    [] d.t = "map" /\ ReasonsRaises(d) -> Raised("TypeError")
    [] d.t = "map" /\ ~ReasonsRaises(d) /\ RiskyRaises(d) -> Raised("TypeError")
    [] d.t = "map" /\ ~ReasonsRaises(d) /\ ~RiskyRaises(d) /\ UrlsRaises(d) ->
         Raised(IF Iterable(Get(d.urls, FList(<<>>))) THEN "AttributeError" ELSE "TypeError")
    [] d.t = "map" /\ ~ReasonsRaises(d) /\ ~RiskyRaises(d) /\ ~UrlsRaises(d)
         /\ UserMessageRaises(d) -> Raised("AttributeError")
    [] OTHER ->
         [status |-> "returned", exc |-> "", verdict |-> NormVerdict(d),
          confidence |-> NormConfidence(d), reasons |-> NormReasons(d),
          risky_phrases |-> NormRiskyPhrases(d, order), urls |-> NormUrls(d),
          user_message |-> NormUserMessage(d)]

(***************************************************************************)
(* The replies the model call can be given: what json.loads returned, or   *)
(* the text of the exception raised inside the try block.                  *)
(***************************************************************************)
T_x == <<"x", ".", "i", "o">>
T_xPadded == <<" ", "x", ".", "i", "o", "\n">>
T_weird == <<"w", "e", "i", "r", "d">>
T_otp == <<"o", "t", "p">>
T_urgent == <<"u", "r", "g", "e", "n", "t">>

Errors == {<<>>, <<"t", "i", "m", "e", "o", "u", "t">>, <<" ", "b", "a", "d", " ">>}

VerdictInputs ==
  {Missing, JNull, JInt(1), JBool(TRUE), JFloat(50), JEmptyList, JEmptyMap,
   JStr(S_safe), JStr(<<"S", "A", "F", "E">>), JStr(<<"S", "a", "f", "e">>),
   JStr(S_phishing), JStr(<<"P", "h", "i", "s", "h", "i", "n", "g">>),
   JStr(<<"P", "H", "I", "S", "H", "I", "N", "G">>),
   JStr(S_suspicious), JStr(<<"s", "u", "s", "p", "i", "c", "i", "o", "u", "S">>),
   JStr(S_unknown), JStr(<<>>), JStr(<<" ", "s", "a", "f", "e">>),
   JStr(<<"s", "a", "f", "e", "s", "t">>), JStr(T_weird)}

ConfidenceInputs ==
  {Missing, JNull, JEmptyList, JEmptyMap, JBool(TRUE), JBool(FALSE),
   JFloat(-50), JFloat(0), JFloat(37), JFloat(95), JFloat(One), JFloat(150),
   JInt(-1), JInt(0), JInt(1), JInt(2), JNaN, JInf(1), JInf(-1),
   JBigInt(1, 20), JBigInt(-1, 20), JBigInt(1, 400), JBigInt(-1, 400),
   JStr(<<"0", ".", "9", "5", "a", "b", "c">>), JStr(<<"0", ".", "5">>),
   JStr(<<" ", "0", ".", "2", "5", "\n">>), JStr(<<"1", ".", "5">>), JStr(<<"-", "3">>),
   JStr(<<"+", ".", "5">>), JStr(<<"n", "a", "n">>), JStr(<<"-", "I", "n", "f">>),
   JStr(<<"i", "n", "f", "i", "n", "i", "t", "y">>), JStr(<<>>), JStr(<<"a", "b", "c">>),
   JStr(<<"1", ".", "2", ".", "3">>), JStr(<<"-">>)}

ReasonElems == {Elem(JStr(<<"a">>)), Elem(JInt(12))}

ReasonsInputs ==
  {FList(l) : l \in UNION {[1..k -> ReasonElems] : k \in 0..MaxReasons}}
    \cup {Field(Missing), Field(JNull), Field(JInt(5)), Field(JFloat(50)), Field(JBool(TRUE)),
          Field(JEmptyMap), Field(JStr(<<"a", "b">>)), Field(JStr(<<>>)),
          FList(<<Elem(JNull), Elem(JBool(FALSE)), Elem(JFloat(-150)), Elem(JEmptyList),
                  Elem(JStr(<<" ", "r", " ">>))>>)}

RiskyInputs ==
  {Field(Missing), Field(JNull), Field(JInt(5)), Field(JStr(<<"a", "b", "a">>)), Field(JEmptyMap),
   FList(<<>>), FList(<<Elem(JStr(T_otp))>>),
   FList(<<Elem(JStr(T_otp)), Elem(JStr(T_otp))>>),
   FList(<<Elem(JStr(T_urgent)), Elem(JStr(T_otp)), Elem(JStr(T_urgent))>>),
   FList(<<Elem(JInt(1)), Elem(JBool(TRUE)), Elem(JNull)>>),
   FList(<<Elem(JStr(T_otp)), Elem(JEmptyList)>>),
   FList(<<Elem(JEmptyMap)>>)}

UrlElems ==
  {Item(JStr(T_xPadded), JStr(S_safe)), Item(Missing, JStr(<<"S", "A", "F", "E">>)),
   Item(JStr(T_x), JStr(T_weird)), Item(JStr(T_x), Missing), Item(JStr(T_x), JStr(<<>>)),
   Item(JStr(T_x), JNull), Item(JStr(T_x), JInt(1)),
   Item(JStr(T_x), JStr(<<" ", "s", "a", "f", "e">>)),
   Item(JNull, JStr(<<"P", "h", "i", "s", "h", "i", "n", "g">>)),
   Item(JInt(5), JStr(S_suspicious)), Item(Missing, Missing),
   Elem(JStr(T_x)), Elem(JNull)}

UrlsInputs ==
  {FList(l) : l \in UNION {[1..k -> UrlElems] : k \in 0..MaxUrls}}
    \cup {Field(Missing), Field(JNull), Field(JInt(5)), Field(JEmptyMap),
          Field(JStr(<<>>)), Field(JStr(T_x))}

UserMessageInputs ==
  {Missing, JNull, JInt(5), JFloat(50), JBool(FALSE), JEmptyList, JEmptyMap,
   JStr(<<>>), JStr(<<" ", " ">>), JStr(<<" ", "\t", "\n">>), JStr(<<"h", "i">>),
   JStr(<<" ", "h", "i", "\n">>), JStr(<<"a", " ", "b">>)}

\* the values the other fields take while one field ranges over its inputs
VerdictFew == {Missing, JStr(<<"P", "H", "I", "S", "H", "I", "N", "G">>)}
ConfidenceFew == {Missing, JFloat(95)}
ReasonsFew == {Field(Missing), FList(<<Elem(JStr(<<"a">>))>>)}
RiskyFew == {Field(Missing), FList(<<Elem(JStr(T_otp))>>)}
UrlsFew == {Field(Missing), FList(<<Item(JStr(T_x), JStr(T_weird))>>)}
UserMessageFew == {Missing, JStr(<<"h", "i">>)}

NonMappings == {JNull, JInt(5), JFloat(50), JBool(TRUE), JStr(<<>>), JStr(T_x), JEmptyList}

(***************************************************************************)
(* State.  result.status is "none" until call_gemini_sms_image has run,    *)
(* then "returned" or "raised".                                            *)
(***************************************************************************)
NoResult ==
  [status |-> "none", exc |-> "", verdict |-> <<>>, confidence |-> Fin(0), reasons |-> <<>>,
   risky_phrases |-> <<>>, urls |-> <<>>, user_message |-> <<>>]

Init ==
  /\ callFailed = FALSE
  /\ error = <<>>
  /\ data = NonMapping(Missing)
  /\ result = NoResult
  /\ hlDone = FALSE
  /\ hlText = <<>>
  /\ hlPhrases = <<>>
  /\ hlOrder = <<>>
  /\ hlOut = <<>>

\* lines 96-126 on the payload d; the order in which set() yields its members
\* is any order
NormalizePayload(d, failed, e) ==
  \E order \in Orders(Len(RiskySet(d))) :
    /\ data' = d
    /\ callFailed' = failed
    /\ error' = e
    /\ result' = Normalize(d, order)
    /\ UNCHANGED <<hlDone, hlText, hlPhrases, hlOrder, hlOut>>

\* call_gemini_sms_image, run once for the request: the try block either raises,
\* and data is the except branch's payload, or yields what json.loads decoded
CallGeminiSmsImage ==
  /\ result.status = "none"
  /\ \/ \E e \in Errors : NormalizePayload(ExceptPayload(e), TRUE, e)
     \/ \E v \in NonMappings : NormalizePayload(NonMapping(v), FALSE, <<>>)
     \/ \E v \in VerdictInputs, c \in ConfidenceFew, r \in ReasonsFew, p \in RiskyFew,
           u \in UrlsFew, m \in UserMessageFew :
          NormalizePayload(Mapping(Field(v), Field(c), r, p, u, Field(m)), FALSE, <<>>)
     \/ \E v \in VerdictFew, c \in ConfidenceInputs, r \in ReasonsFew, p \in RiskyFew,
           u \in UrlsFew, m \in UserMessageFew :
          NormalizePayload(Mapping(Field(v), Field(c), r, p, u, Field(m)), FALSE, <<>>)
     \/ \E v \in VerdictFew, c \in ConfidenceFew, r \in ReasonsInputs, p \in RiskyFew,
           u \in UrlsFew, m \in UserMessageFew :
          NormalizePayload(Mapping(Field(v), Field(c), r, p, u, Field(m)), FALSE, <<>>)
     \/ \E v \in VerdictFew, c \in ConfidenceFew, r \in ReasonsFew, p \in RiskyInputs,
           u \in UrlsFew, m \in UserMessageFew :
          NormalizePayload(Mapping(Field(v), Field(c), r, p, u, Field(m)), FALSE, <<>>)
     \/ \E v \in VerdictFew, c \in ConfidenceFew, r \in ReasonsFew, p \in RiskyFew,
           u \in UrlsInputs, m \in UserMessageFew :
          NormalizePayload(Mapping(Field(v), Field(c), r, p, u, Field(m)), FALSE, <<>>)
     \/ \E v \in VerdictFew, c \in ConfidenceFew, r \in ReasonsFew, p \in RiskyFew,
           u \in UrlsFew, m \in UserMessageInputs :
          NormalizePayload(Mapping(Field(v), Field(c), r, p, u, Field(m)), FALSE, <<>>)

Next == CallGeminiSmsImage

Spec == Init /\ [][Next]_vars

(***************************************************************************)
(* highlight_phrases.                                                      *)
(***************************************************************************)
\* markupsafe.escape
EscapeChar(c) ==
  CASE c = "&" -> <<"&", "a", "m", "p", ";">>
    [] c = "<" -> <<"&", "l", "t", ";">>
    [] c = ">" -> <<"&", "g", "t", ";">>
    [] c = "'" -> <<"&", "#", "3", "9", ";">>
    [] c = "\"" -> <<"&", "#", "3", "4", ";">>
    [] OTHER -> <<c>>

RECURSIVE Escape(_)
Escape(text) == IF text = <<>> THEN <<>> ELSE EscapeChar(Head(text)) \o Escape(Tail(text))

\* \w
IsWordChar(c) == c \in LowerChars \cup UpperChars \cup DigitChars \cup {"_"}

WordAt(text, i) == i >= 1 /\ i <= Len(text) /\ IsWordChar(text[i])

\* \b before position i (1..Len+1): exactly one side is a word character
Boundary(text, i) == WordAt(text, i - 1) # WordAt(text, i)

\* (?i)\b(p)\b matches at position i; re.escape makes p match itself, letter
\* case aside
MatchAt(text, p, i) ==
  /\ i + Len(p) - 1 <= Len(text)
  /\ \A j \in 1..Len(p) : LowerChar(text[i + j - 1]) = LowerChar(p[j])
  /\ Boundary(text, i)
  /\ Boundary(text, i + Len(p))

\* the replacement template as written in the source: r"<mark>\\1</mark>"
Template ==
  <<"<", "m", "a", "r", "k", ">", "\\", "\\", "1", "<", "/", "m", "a", "r", "k", ">">>

\* re's expansion of a template: \\ is a backslash, \1 is group 1
RECURSIVE Expand(_, _)
Expand(tpl, group) ==
  IF tpl = <<>> THEN <<>>
  ELSE IF Len(tpl) >= 2 /\ tpl[1] = "\\" /\ tpl[2] = "\\"
       THEN <<"\\">> \o Expand(SubSeq(tpl, 3, Len(tpl)), group)
       ELSE IF Len(tpl) >= 2 /\ tpl[1] = "\\" /\ tpl[2] = "1"
            THEN group \o Expand(SubSeq(tpl, 3, Len(tpl)), group)
            ELSE <<Head(tpl)>> \o Expand(Tail(tpl), group)

\* pattern.sub(tpl, text) from position pos on: the leftmost matches, left to
\* right, none overlapping; after an empty match the scan moves one character on
RECURSIVE SubFrom(_, _, _, _)
SubFrom(text, p, tpl, pos) ==
  LET hits == {i \in pos..(Len(text) + 1) : MatchAt(text, p, i)}
  IN IF hits = {} THEN SubSeq(text, pos, Len(text))
     ELSE LET i == CHOOSE h \in hits : \A g \in hits : h <= g
              repl == Expand(tpl, SubSeq(text, i, i + Len(p) - 1))
          IN SubSeq(text, pos, i - 1) \o repl \o
               (IF Len(p) > 0 THEN SubFrom(text, p, tpl, i + Len(p))
                ELSE IF i <= Len(text) THEN <<text[i]>> \o SubFrom(text, p, tpl, i + 1)
                ELSE <<>>)

Sub(text, p) == SubFrom(text, p, Template, 1)

\* set(phrases)
PhraseSet(phrases) == {phrases[i] : i \in 1..Len(phrases)}

\* sorted(set(phrases), key=len, reverse=True): members of equal length keep
\* the set's iteration order, which is any order
SortedOrders(S) ==
  {o \in [1..Cardinality(S) -> S] :
     /\ \A i, j \in 1..Cardinality(S) : i # j => o[i] # o[j]
     /\ \A i, j \in 1..Cardinality(S) : i < j => Len(o[i]) >= Len(o[j])}

\* the for loop: each phrase is substituted in what the earlier ones left
RECURSIVE ApplyPhrases(_, _)
ApplyPhrases(order, escaped) ==
  IF order = <<>> THEN escaped ELSE ApplyPhrases(Tail(order), Sub(escaped, Head(order)))

T_OtpUrgent ==
  <<"Y", "o", "u", "r", " ", "O", "T", "P", " ", "i", "s", " ", "u", "r", "g", "e", "n", "t">>
T_actNow == <<"a", "c", "t", " ", "n", "o", "w">>
T_now == <<"n", "o", "w">>
T_amp == <<"a", "m", "p">>
T_press1 == <<"p", "r", "e", "s", "s", " ", "1">>

Texts ==
  {<<>>, T_OtpUrgent, T_urgent, <<"a", "c", "t", " ", "u", "r", "g", "e", "n", "t", "l", "y">>,
   <<"A", "c", "t", " ", "N", "o", "w", "!">>, <<"n", "o", "w", " ", "o", "r", " ", "n", "o", "w">>,
   <<"a", " ", "&", " ", "b">>, <<"R", "&", "D", " ", "a", "m", "p">>,
   <<"x", " ", "<", " ", "1">>, <<"5", " ", ">", " ", "3", "9">>, <<"i", "t", "'", "s">>,
   <<"s", "a", "y", " ", "\"", "l", "t", "\"">>, <<"o", "t", "p", "_", "1", " ", "O", "t", "p">>,
   T_press1 \o <<" ", "n", "o", "w">>}

Phrases ==
  {T_otp, <<"O", "T", "P">>, T_urgent, T_actNow, T_now, T_amp, <<"l", "t">>, <<"g", "t">>,
   <<"3", "9">>, <<"m", "a", "r", "k">>, <<"1">>, <<"&">>, <<"z", "z">>, T_press1}

PhraseLists == UNION {[1..k -> Phrases] : k \in 0..MaxPhrases}

\* highlight_phrases(text, phrases), run once
HighlightPhrases ==
  /\ ~hlDone
  /\ \E text \in Texts, phrases \in PhraseLists :
       \E order \in SortedOrders(PhraseSet(phrases)) :
         /\ hlDone' = TRUE
         /\ hlText' = text
         /\ hlPhrases' = phrases
         /\ hlOrder' = order
         /\ hlOut' = ApplyPhrases(order, Escape(text))
         /\ UNCHANGED <<callFailed, error, data, result>>

NextHL == HighlightPhrases

SpecHL == Init /\ [][NextHL]_vars

(***************************************************************************)
(* Properties of call_gemini_sms_image.                                    *)
(***************************************************************************)
Called == result.status # "none"
Returned == result.status = "returned"

\* s is w in some letter casing
IsCasingOf(s, w) ==
  /\ Len(s) = Len(w)
  /\ \A i \in 1..Len(s) : s[i] = w[i] \/ (s[i] \in UpperChars /\ LowerMap[s[i]] = w[i])

\* out is s without its leading and trailing whitespace
TrimmedOf(out, s) ==
  /\ out = <<>> \/ (out[1] \notin Whitespace /\ out[Len(out)] \notin Whitespace)
  /\ \E a \in 0..Len(s) : \E b \in a..Len(s) :
       /\ SubSeq(s, a + 1, b) = out
       /\ \A k \in (1..a) \cup ((b + 1)..Len(s)) : s[k] \in Whitespace

\* C1: the normalization returns a result for every decoded payload; no
\* payload makes the call end in an exception.
C1_NeverRaises == Called => Returned

\* the confidence input as a number: below 0, above 1, or inside [0, 1]
BelowZero(c) == c.t \in {"int", "float", "bigint", "inf"} /\ c.n < 0
AboveOne(c) ==
  \/ c.t = "int" /\ c.n > 1
  \/ c.t = "float" /\ c.n > One
  \/ c.t \in {"bigint", "inf"} /\ c.n > 0
InsideUnit(c) == (c.t = "int" /\ c.n \in 0..1) \/ (c.t = "float" /\ c.n \in 0..One)
UnitValue(c) == IF c.t = "int" THEN c.n * One ELSE c.n
\* an integer above the largest double
BeyondDouble(c) == c.t = "bigint" /\ Len(c.s) > 309
\* text holding a letter that no numeral holds, or no text at all
NotNumeral(s) ==
  \/ s = <<>>
  \/ \E i \in 1..Len(s) :
       /\ s[i] \in LowerChars \cup UpperChars
       /\ LowerChar(s[i]) \notin {"e", "i", "n", "f", "t", "y", "a"}
NonNumeric(c) == c.t \in {"missing", "null", "list", "map"} \/ (c.t = "str" /\ NotNumeral(c.s))

ConfidenceInUnit == result.confidence.k = "fin" /\ result.confidence.n \in 0..One

\* C2 as stated: whenever the call returns, confidence lies in [0.0, 1.0]; a
\* numeric input below 0 gives 0.0, every numeric input above 1 gives 1.0, a
\* numeric input inside the interval is unchanged, and a missing or non-numeric
\* input gives 0.0.
C2_Original ==
  Returned =>
    /\ ConfidenceInUnit
    /\ BelowZero(data.confidence) => result.confidence.n = 0
    /\ AboveOne(data.confidence) => result.confidence.n = One
    /\ InsideUnit(data.confidence) => result.confidence.n = UnitValue(data.confidence)
    /\ NonNumeric(data.confidence) => result.confidence.n = 0

\* C2 amended: as C2, except that an integer too large to convert to a float is
\* a conversion failure and gives 0.0; every other numeric input above 1 gives
\* 1.0.
C2_ConfidenceClamped ==
  Returned =>
    /\ ConfidenceInUnit
    /\ BelowZero(data.confidence) => result.confidence.n = 0
    /\ AboveOne(data.confidence) /\ ~BeyondDouble(data.confidence) => result.confidence.n = One
    /\ BeyondDouble(data.confidence) => result.confidence.n = 0
    /\ InsideUnit(data.confidence) => result.confidence.n = UnitValue(data.confidence)
    /\ NonNumeric(data.confidence) => result.confidence.n = 0

C2_Witness ==
  /\ Returned
  /\ data.confidence.t = "float"
  /\ data.confidence.n > One
  /\ result.confidence = Fin(One)

\* C3: whenever the call returns, the verdict is safe, suspicious, phishing or
\* unknown; an input that is one of the first three words in any casing gives
\* that word in lower case; every other input, and a missing verdict, gives
\* unknown.
C3_VerdictClosed ==
  Returned =>
    /\ result.verdict \in Verdicts \cup {S_unknown}
    /\ \A w \in Verdicts :
         data.verdict.t = "str" /\ IsCasingOf(data.verdict.s, w) => result.verdict = w
    /\ (data.verdict.t # "str" \/ \A w \in Verdicts : ~IsCasingOf(data.verdict.s, w))
         => result.verdict = S_unknown

C3_Witness ==
  /\ Returned
  /\ data.verdict.t = "str"
  /\ data.verdict.s = <<"S", "A", "F", "E">>
  /\ result.verdict = S_safe

UrlEntries == IF data.urls.t = "list" THEN data.urls.l ELSE <<>>

C5_ReasonsCapped ==
  Called /\ data.t = "map" /\ ~RiskyRaises(data) /\ ~UrlsRaises(data) /\ ~UserMessageRaises(data) =>
    /\ Returned
    /\ Len(result.reasons) <= ReasonsCap
    /\ data.reasons.t = "list" =>
         /\ Len(result.reasons) = IF Len(data.reasons.l) < ReasonsCap
                                  THEN Len(data.reasons.l) ELSE ReasonsCap
         /\ \A i \in 1..Len(result.reasons) : result.reasons[i] = Str(data.reasons.l[i])
    /\ data.reasons.t \in {"missing", "null", "int", "float", "bool"} => result.reasons = <<>>

\* C6: for every payload (the other fields well formed), user_message is not
\* empty: it is the input as text, trimmed, or the fallback sentence when that
\* is empty.
C6_UserMessageNonEmpty ==
  Called /\ data.t = "map" /\ ~ReasonsRaises(data) /\ ~RiskyRaises(data) /\ ~UrlsRaises(data) =>
    /\ Returned
    /\ result.user_message # <<>>
    /\ LET text == IF data.user_message.t = "missing" THEN <<>> ELSE Str(data.user_message)
       IN \/ TrimmedOf(result.user_message, text) /\ result.user_message # <<>>
          \/ TrimmedOf(<<>>, text) /\ result.user_message = S_NoExplanation

\* C7: when the model call fails, the call returns verdict unknown, confidence
\* 0.0, one reason naming the failure, no risky phrases, no urls and the
\* message "Automatic analysis failed.".
C7_FailureDefaults ==
  callFailed =>
    /\ Returned
    /\ result.verdict = S_unknown
    /\ result.confidence = Fin(0)
    /\ result.reasons = <<S_GeminiError \o error>>
    /\ result.risky_phrases = <<>>
    /\ result.urls = <<>>
    /\ result.user_message = S_AnalysisFailed

C7_Witness ==
  /\ callFailed
  /\ Returned
  /\ error = <<"t", "i", "m", "e", "o", "u", "t">>
  /\ Len(result.reasons) = 1

(***************************************************************************)
(* Properties of highlight_phrases.                                        *)
(***************************************************************************)
MarkOpen == <<"<", "m", "a", "r", "k", ">">>
MarkClose == <<"<", "/", "m", "a", "r", "k", ">">>
\* the template that wraps group 1
WrapTemplate == MarkOpen \o <<"\\", "1">> \o MarkClose

OccursAt(text, w, i) == i + Len(w) - 1 <= Len(text) /\ SubSeq(text, i, i + Len(w) - 1) = w

\* C8: every case-insensitive whole-word occurrence of a phrase is wrapped in
\* <mark>...</mark> around the matched text itself, and nothing else changes;
\* "Your OTP is urgent" with {otp, urgent} gives
\* "Your <mark>OTP</mark> is <mark>urgent</mark>".
C8_WrapsMatchedText ==
  hlDone =>
    /\ Len(hlOrder) = 1 => hlOut = SubFrom(Escape(hlText), hlOrder[1], WrapTemplate, 1)
    /\ hlText = T_OtpUrgent /\ PhraseSet(hlPhrases) = {T_otp, T_urgent} =>
         hlOut = <<"Y", "o", "u", "r", " ">> \o MarkOpen \o <<"O", "T", "P">> \o MarkClose
                   \o <<" ", "i", "s", " ">> \o MarkOpen \o T_urgent \o MarkClose

\* q occurs inside the longer p
IsPartOf(q, p) == Len(q) < Len(p) /\ \E i \in 1..Len(p) : OccursAt(p, q, i)

\* C9: the phrases are applied each once, longest first, and when one phrase is
\* part of another the output never holds a marker opened inside another
\* marker.
C9_NoNestedMarker ==
  hlDone =>
    /\ \A i, j \in 1..Len(hlOrder) :
         i < j => hlOrder[i] # hlOrder[j] /\ Len(hlOrder[i]) >= Len(hlOrder[j])
    /\ (\E i, j \in 1..Len(hlOrder) : IsPartOf(hlOrder[j], hlOrder[i])) =>
         \A i, j \in 1..Len(hlOut) :
           i < j /\ OccursAt(hlOut, MarkOpen, i) /\ OccursAt(hlOut, MarkOpen, j) =>
             \E k \in (i + 1)..(j - 1) : OccursAt(hlOut, MarkClose, k)

Entities ==
  {<<"&", "a", "m", "p", ";">>, <<"&", "l", "t", ";">>, <<"&", "g", "t", ";">>,
   <<"&", "#", "3", "9", ";">>, <<"&", "#", "3", "4", ";">>}

\* C10: every character entity made by escaping stays intact in the output: no
\* marker is put inside an entity, so every & of the output begins an entity.
C10_EntitiesIntact ==
  hlDone =>
    \A i \in 1..Len(hlOut) : hlOut[i] = "&" => \E ent \in Entities : OccursAt(hlOut, ent, i)

====
